---- MODULE Spec2Model ----
(***************************************************************************)
(* A model of fetch_vcdist.py: the orchestrator fetch_all, the generator   *)
(* fetch_runtimes, the downloader download_file, the tool fetchers         *)
(* fetch_wix and fetch_7zip, and the two extraction paths.                 *)
(*                                                                         *)
(* Strings are sequences of one-character strings so that partition('.')   *)
(* and int() are computed rather than assumed.  The filesystem is the      *)
(* record fs; a file is "absent", "good" (the complete body of a           *)
(* successful response) or "bad" (an empty, partial or wrong body).        *)
(* An output directory is a record: whether it exists, and the number of   *)
(* CABs whose files it holds (0 is an empty directory).                    *)
(***************************************************************************)
EXTENDS Integers, Sequences, FiniteSets, TLC

\* ---------------------------------------------------------------- bounds
MaxEntries == 2     \* entries of a test catalog
MaxCabs    == 2     \* CAB files an installer unpacks to
MaxRuns    == 2     \* successive runs of fetch_all on the same destination

\* ---------------------------------------------------------------- catalog
\* The one entry of the list literal runtime_downloads.
V14_42 == <<"1","4",".","4","2",".","3","4","4","3","8",".","0">>

\* runtime_downloads as the source defines it: every other entry of the
\* literal is commented out.
ShippedCatalog == <<V14_42>>

\* Version strings of commented-out entries.  No run of the program as
\* shipped sees them; they are the versions of the test catalogs below.
V8     == <<"8",".","0",".","5","0","7","2","7",".","6","1","9","5","0","1">>
V9     == <<"9",".","0",".","3","0","7","2","9",".","4","1","4","8">>
V10    == <<"1","0",".","0",".","4","0","2","1","9",".","3","2","5","0","3">>
V12    == <<"1","2",".","0",".","3","0","5","0","1",".","0">>

\* The versions test catalogs are made of, in an order that makes
\* neighbours of a bundle and a legacy version, two legacy versions, a
\* legacy version and 2010, and 2010 and a bundle version below 14.
TestVersions == <<V14_42, V8, V9, V10, V12>>

Versions == {TestVersions[k] : k \in 1..Len(TestVersions)}

\* Test catalogs: well-formed lists put in the place of the literal
\* runtime_downloads, each a run of up to MaxEntries consecutive entries
\* of TestVersions.  They reach the code the shipped list does not: the
\* age filter, the 2010 skip, the legacy path and a loop of two entries.
Catalogs ==
    {SubSeq(TestVersions, w[1], w[1] + w[2] - 1) :
        w \in {x \in (1..Len(TestVersions)) \X (1..MaxEntries) :
                  x[1] + x[2] - 1 <= Len(TestVersions)}}

\* ------------------------------------------------------------ pure helpers
\* version.partition('.')[0]
RECURSIVE PartitionHead(_)
PartitionHead(s) ==
    IF s = <<>> \/ Head(s) = "." THEN <<>>
    ELSE <<Head(s)>> \o PartitionHead(Tail(s))

DigitValue(c) ==
    CASE c = "0" -> 0 [] c = "1" -> 1 [] c = "2" -> 2 [] c = "3" -> 3
      [] c = "4" -> 4 [] c = "5" -> 5 [] c = "6" -> 6 [] c = "7" -> 7
      [] c = "8" -> 8 [] c = "9" -> 9

\* int(text)
RECURSIVE ParseInt(_)
ParseInt(s) ==
    IF s = <<>> THEN 0
    ELSE ParseInt(SubSeq(s, 1, Len(s) - 1)) * 10 + DigitValue(s[Len(s)])

MajorVersion(ver) == ParseInt(PartitionHead(ver))

\* The filter with the threshold of the dispatch in place of 14.
FilteredOutBelow11(ver, include_old) ==
    ~include_old /\ MajorVersion(ver) < 11

\* fetch_runtimes: "if not include_old_versions and major < 14: continue"
FilteredOut(ver, include_old) == ~include_old /\ MajorVersion(ver) < 14

\* The dispatch without the special case of Visual C++ 2010.
StrategyWithout2010(major) ==
    IF major < 11 THEN "legacy" ELSE "bundle"

\* The dispatch with the legacy threshold two versions too high.
StrategyBelow13(major) ==
    IF major = 10 THEN "skip"
    ELSE IF major < 13 THEN "legacy"
    ELSE "bundle"

\* fetch_all: the branch taken for an entry whose output directory is empty
Strategy(major) ==
    IF major = 10 THEN "skip"
    ELSE IF major < 11 THEN "legacy"
    ELSE "bundle"

\* fetch_all without the guard on the Downloads directory.
DownloadDirNotChecked(f) == FALSE

\* fetch_all: "if not os.path.isdir(download_directory): raise SystemError"
DownloadDirMissing(f) == ~f.downloads

\* fetch_all: "if os.listdir(output_directory)"
AlreadyHave(dir) == dir.files > 0

\* extract_old_installer without the test of the temporary directory.
NoCabNotChecked(n) == FALSE

\* extract_old_installer: "if not os.listdir(output_directory): raise"
NoCabExtracted(n) == n = 0

\* A loop that yields the same catalog entry again.
NextIndexStuck(i) == i

\* the for loop of fetch_runtimes moving to the next catalog entry
NextIndex(i) == i + 1

Outcomes == {"ok", "http_error", "stream_error", "connection_error"}

DownloadBody(outcome) ==
    CASE outcome = "ok" ->
           [file |-> "good", requests |-> 1, raised |-> FALSE]
      [] outcome = "http_error" ->
           [file |-> "bad", requests |-> 1, raised |-> FALSE]
      [] outcome = "stream_error" ->
           [file |-> "bad", requests |-> 1, raised |-> TRUE]
      [] outcome = "connection_error" ->
           [file |-> "absent", requests |-> 1, raised |-> TRUE]

\* download_file without the isfile test: every call makes the request.
DownloadFileNoCache(file, outcome) ==
    IF outcome = "connection_error"
    THEN [file |-> file, requests |-> 1, raised |-> TRUE]
    ELSE DownloadBody(outcome)

\* download_file opening dest for writing before the isfile test.
DownloadFileTruncates(file, outcome) ==
    IF file # "absent"
    THEN [file |-> "bad", requests |-> 0, raised |-> FALSE]
    ELSE DownloadBody(outcome)

\* download_file taking only a complete file for a cache hit.
DownloadFileVerifies(file, outcome) ==
    IF file = "good"
    THEN [file |-> file, requests |-> 0, raised |-> FALSE]
    ELSE IF outcome = "connection_error"
    THEN [file |-> file, requests |-> 1, raised |-> TRUE]
    ELSE DownloadBody(outcome)

\* download_file(uri, dest), on the state of dest and the outcome of the
\* request if one is made: the new state of dest, the number of requests
\* made, and whether an exception leaves the function.
DownloadFile(file, outcome) ==
    IF file # "absent"
    THEN [file |-> file, requests |-> 0, raised |-> FALSE]
    ELSE DownloadBody(outcome)

\* "if not os.path.isfile(path): download_file(...)" when the file exists
NotCalled(file) == [file |-> file, requests |-> 0, raised |-> FALSE]

\* ------------------------------------------------------------------ state
VARIABLES
    runtime_downloads,      \* the catalog: a sequence of versions
    include_old_versions,   \* argument of the current run
    fs,                     \* the filesystem under the destination
    fs0,                    \* fs when the current run started
    pc,                     \* position of fetch_all
    idx,                    \* position of the fetch_runtimes loop
    err,                    \* the exception that ended the run, or "none"
    log,                    \* calls and reports of the current run, in order
    net,                    \* network requests made by the current run
    cabs_left,              \* CABs the current extraction loop still expands
    all_ok,                 \* every extraction call of the entry succeeded
    extracted,              \* versions whose extraction fully succeeded
    runs                    \* runs started so far

vars == <<runtime_downloads, include_old_versions, fs, fs0, pc, idx, err,
          log, net, cabs_left, all_ok, extracted, runs>>

InitialFs(d) ==
    [downloads     |-> d,
     wix_zip       |-> "absent",
     wix_dir       |-> FALSE,
     sevenzr_exe   |-> "absent",
     tool_archive  |-> "absent",
     tools_path    |-> "absent",
     installer     |-> [v \in Versions |-> "absent"],
     output        |-> [v \in Versions |-> [isdir |-> FALSE, files |-> 0]]]

\* The state before the first run, for a given list runtime_downloads.
InitWith(catalog) ==
    /\ runtime_downloads = catalog
    /\ include_old_versions = FALSE
    /\ \E d \in BOOLEAN : fs = InitialFs(d)
    /\ fs0 = fs
    /\ pc = "idle"
    /\ idx = 1
    /\ err = "none"
    /\ log = <<>>
    /\ net = 0
    /\ cabs_left = 0
    /\ all_ok = TRUE
    /\ extracted = {}
    /\ runs = 0

\* The program as shipped.
Init == InitWith(ShippedCatalog)

\* The program with a test catalog in the place of the literal.
InitCatalog == \E c \in Catalogs : InitWith(c)

Ver == runtime_downloads[idx]

Raise(e) == pc' = "failed" /\ err' = e

Event(op, v) == <<op, v>>

\* ---------------------------------------------------------------- actions
\* fetch_all is called: the Downloads guard.
StartRun(include_old) ==
    /\ pc \in {"idle", "done", "failed"}
    /\ runs < MaxRuns
    /\ runs' = runs + 1
    /\ include_old_versions' = include_old
    /\ fs0' = fs
    /\ idx' = 1
    /\ log' = <<>>
    /\ net' = 0
    /\ cabs_left' = 0
    /\ all_ok' = TRUE
    /\ IF DownloadDirMissing(fs)
       THEN Raise("SystemError")
       ELSE pc' = "fetch_wix" /\ err' = "none"
    /\ UNCHANGED <<runtime_downloads, fs, extracted>>

\* fetch_wix: download the zip unless present, then always unzip it.
FetchWix(outcome) ==
    /\ pc = "fetch_wix"
    /\ LET d == IF fs.wix_zip = "absent"
                THEN DownloadFile(fs.wix_zip, outcome)
                ELSE NotCalled(fs.wix_zip)
       IN
         /\ net' = net + d.requests
         /\ log' = Append(log, Event("fetch_wix", <<>>))
         /\ IF d.raised
            THEN /\ fs' = [fs EXCEPT !.wix_zip = d.file]
                 /\ Raise("RequestException")
            ELSE IF d.file = "bad"
            THEN /\ fs' = [fs EXCEPT !.wix_zip = d.file]
                 /\ Raise("BadZipFile")
            ELSE /\ fs' = [fs EXCEPT !.wix_zip = d.file, !.wix_dir = TRUE]
                 /\ pc' = "fetch_runtimes"
                 /\ err' = err
    /\ UNCHANGED <<runtime_downloads, include_old_versions, fs0, idx,
                   cabs_left, all_ok, extracted, runs>>

\* One iteration of the loop of fetch_runtimes: the catalog is exhausted,
\* the entry is filtered out, or it is downloaded and yielded.
FetchRuntimes(outcome) ==
    /\ pc = "fetch_runtimes"
    /\ IF idx > Len(runtime_downloads)
       THEN /\ pc' = "done"
            /\ UNCHANGED <<fs, idx, err, log, net>>
       ELSE IF FilteredOut(Ver, include_old_versions)
       THEN /\ idx' = NextIndex(idx)
            /\ log' = Append(log, Event("filtered", Ver))
            /\ UNCHANGED <<fs, pc, err, net>>
       ELSE LET d == DownloadFile(fs.installer[Ver], outcome) IN
            /\ fs' = [fs EXCEPT !.installer[Ver] = d.file]
            /\ net' = net + d.requests
            /\ log' = Append(log, Event("download_file", Ver))
            /\ idx' = idx
            /\ IF d.raised
               THEN Raise("RequestException")
               ELSE pc' = "entry" /\ err' = err
    /\ UNCHANGED <<runtime_downloads, include_old_versions, fs0,
                   cabs_left, all_ok, extracted, runs>>

\* The body of the loop of fetch_all up to the dispatch on major version.
ProcessEntry ==
    /\ pc = "entry"
    /\ LET dir     == fs.output[Ver]
           made    == [dir EXCEPT !.isdir = TRUE]
           log1    == IF ~dir.isdir
                      THEN Append(log, Event("makedirs", Ver)) ELSE log
           choice  == Strategy(MajorVersion(Ver))
       IN
         /\ fs' = [fs EXCEPT !.output[Ver] = made]
         /\ IF AlreadyHave(made)
            THEN /\ log' = Append(log1, Event("already_have", Ver))
                 /\ idx' = NextIndex(idx)
                 /\ pc' = "fetch_runtimes"
            ELSE IF choice = "skip"
            THEN /\ log' = Append(log1, Event("cannot_extract", Ver))
                 /\ idx' = NextIndex(idx)
                 /\ pc' = "fetch_runtimes"
            ELSE IF choice = "legacy"
            THEN /\ log' = log1
                 /\ idx' = idx
                 /\ pc' = "fetch_7zip"
            ELSE /\ log' = log1
                 /\ idx' = idx
                 /\ pc' = "extract_burn_bundle"
    /\ all_ok' = TRUE
    /\ cabs_left' = 0
    /\ UNCHANGED <<runtime_downloads, include_old_versions, fs0, err, net,
                   extracted, runs>>

\* fetch_7zip: both downloads, then the 7zr call unless _7z exists.  The
\* stand-alone extractor cannot be started when its file is not the
\* executable; it creates _7z when it can open the archive.
Fetch7zip(o1, o2) ==
    /\ pc = "fetch_7zip"
    /\ LET d1   == IF fs.sevenzr_exe = "absent"
                   THEN DownloadFile(fs.sevenzr_exe, o1)
                   ELSE NotCalled(fs.sevenzr_exe)
           fs1  == [fs EXCEPT !.sevenzr_exe = d1.file]
           d2   == IF fs1.tool_archive = "absent"
                   THEN DownloadFile(fs1.tool_archive, o2)
                   ELSE NotCalled(fs1.tool_archive)
           fs2  == [fs1 EXCEPT !.tool_archive = d2.file]
           log1 == Append(log, Event("fetch_7zip", Ver))
       IN
         IF d1.raised
         THEN /\ fs' = fs1
              /\ net' = net + d1.requests
              /\ log' = log1
              /\ Raise("RequestException")
         ELSE IF d2.raised
         THEN /\ fs' = fs2
              /\ net' = net + d1.requests + d2.requests
              /\ log' = log1
              /\ Raise("RequestException")
         ELSE IF fs2.tools_path # "absent"
         THEN /\ fs' = fs2
              /\ net' = net + d1.requests + d2.requests
              /\ log' = log1
              /\ pc' = "extract_old_installer"
              /\ err' = err
         ELSE /\ net' = net + d1.requests + d2.requests
              /\ log' = Append(log1, Event("7zr", Ver))
              /\ IF fs2.sevenzr_exe = "bad"
                 THEN fs' = fs2 /\ Raise("OSError")
                 ELSE /\ fs' = [fs2 EXCEPT !.tools_path =
                                   IF fs2.tool_archive = "good" THEN "good"
                                   ELSE "absent"]
                      /\ pc' = "extract_old_installer"
                      /\ err' = err
    /\ UNCHANGED <<runtime_downloads, include_old_versions, fs0, idx,
                   cabs_left, all_ok, extracted, runs>>

\* extract_old_installer: the 7za call pulls n CAB files out of the
\* installer into a fresh temporary directory; none is an error.  Without
\* _7z/7za.exe the call is made and subprocess.call raises
\* FileNotFoundError, an OSError.
ExtractOldInstaller(n) ==
    /\ pc = "extract_old_installer"
    /\ LET cabs == IF fs.installer[Ver] = "good" THEN n ELSE 0 IN
         /\ log' = Append(log, Event("7za", Ver))
         /\ IF fs.tools_path # "good"
            THEN /\ cabs_left' = cabs_left
                 /\ Raise("OSError")
            ELSE IF NoCabExtracted(cabs)
            THEN cabs_left' = cabs_left /\ Raise("ValueError")
            ELSE /\ cabs_left' = cabs
                 /\ pc' = "extract_cab"
                 /\ err' = err
    /\ UNCHANGED <<runtime_downloads, include_old_versions, fs, fs0, idx,
                   net, all_ok, extracted, runs>>

\* extract_burn_bundle, then the listing with which find_cabs starts:
\* dark.exe unpacks the bundle into a fresh temporary directory, which
\* holds AttachedContainer/packages with n directories named *_amd64,
\* or no such path.
ExtractBurnBundle(has_packages, n) ==
    /\ pc = "extract_burn_bundle"
    /\ log' = Append(log, Event("dark", Ver))
    /\ IF fs.installer[Ver] = "good" /\ has_packages
       THEN /\ cabs_left' = n
            /\ pc' = "extract_cab"
            /\ err' = err
       ELSE /\ cabs_left' = cabs_left
            /\ Raise("FileNotFoundError")
    /\ UNCHANGED <<runtime_downloads, include_old_versions, fs, fs0, idx,
                   net, all_ok, extracted, runs>>

ExpandResults == {"ok", "failed"}

\* One iteration of a loop over the CABs: extract_cab runs expand.exe and
\* ignores its exit status.  The call writes the files of the CAB ("ok")
\* or fails and writes none ("failed").  With no CAB left the loop ends
\* and fetch_all moves to the next entry.
ExtractCab(result) ==
    /\ pc = "extract_cab"
    /\ IF cabs_left = 0
       THEN /\ idx' = NextIndex(idx)
            /\ pc' = "fetch_runtimes"
            /\ extracted' = IF all_ok THEN extracted \cup {Ver}
                            ELSE extracted
            /\ UNCHANGED <<fs, log, cabs_left, all_ok>>
       ELSE /\ log' = Append(log, Event("expand", Ver))
            /\ fs' = [fs EXCEPT !.output[Ver].files =
                         IF result = "failed" THEN @ ELSE @ + 1]
            /\ all_ok' = (all_ok /\ result = "ok")
            /\ cabs_left' = cabs_left - 1
            /\ UNCHANGED <<idx, pc, extracted>>
    /\ UNCHANGED <<runtime_downloads, include_old_versions, fs0, err, net,
                   runs>>

\* The steps of a run of the program as shipped: its one entry is of
\* major version 14, so ProcessEntry never hands over to the legacy path.
Next ==
    \/ \E b \in BOOLEAN : StartRun(b)
    \/ \E o \in Outcomes : FetchWix(o)
    \/ \E o \in Outcomes : FetchRuntimes(o)
    \/ ProcessEntry
    \/ \E b \in BOOLEAN, n \in 0..MaxCabs : ExtractBurnBundle(b, n)
    \/ \E r \in ExpandResults : ExtractCab(r)

Spec == Init /\ [][Next]_vars

\* The steps of a run over a test catalog: those above and the legacy path.
NextCatalog ==
    \/ Next
    \/ \E o1, o2 \in Outcomes : Fetch7zip(o1, o2)
    \/ \E n \in 0..MaxCabs : ExtractOldInstaller(n)

SpecCatalog == InitCatalog /\ [][NextCatalog]_vars

\* ------------------------------------------------- vocabulary of the claims
CatalogVersions ==
    {runtime_downloads[k] : k \in 1..Len(runtime_downloads)}

Position(v) == CHOOSE k \in 1..Len(runtime_downloads) : runtime_downloads[k] = v

\* the entries the age flag of the current run lets through
Selected ==
    {v \in CatalogVersions : include_old_versions \/ MajorVersion(v) >= 14}

LogIndex == 1..Len(log)

Logged(op, v) == \E k \in LogIndex : log[k] = <<op, v>>

\* calls of an external extraction tool
ExtractionOps == {"7zr", "7za", "dark", "expand"}

\* everything done for a catalog entry that was not filtered out
EntryOps == {"download_file", "makedirs", "already_have", "cannot_extract",
             "fetch_7zip", "7zr", "7za", "dark", "expand"}

\* installers downloaded, output directories filled, tool archive cached
FullyCached(f) ==
    /\ f.downloads
    /\ f.wix_zip # "absent"
    /\ \A v \in Selected : /\ f.installer[v] # "absent"
                           /\ f.output[v].isdir
                           /\ f.output[v].files > 0

\* C1: a run that starts with every selected installer downloaded, every
\* selected output directory non-empty and the WiX archive cached makes no
\* network request, calls no extraction tool, does not fail, and when it
\* ends has reported "Already have" for every selected entry.
C1_RerunIdempotent ==
    (pc # "idle" /\ FullyCached(fs0)) =>
        /\ net = 0
        /\ \A k \in LogIndex : log[k][1] \notin ExtractionOps
        /\ Selected # {} => pc # "failed"
        /\ pc = "done" => \A v \in Selected : Logged("already_have", v)

C1_Witness ==
    /\ pc = "done"
    /\ FullyCached(fs0)
    /\ Selected # {}
    /\ \A v \in Selected : Logged("already_have", v)

\* C2: without include_old_versions nothing is done for an entry of major
\* version below 14 (no download, no directory, no extraction, installer
\* and output directory as the run found them); with it no entry is
\* filtered out, and a run that ends normally has downloaded every catalog
\* entry and taken it to the extraction decision.
C2_AgeFilter ==
    /\ ~include_old_versions =>
         /\ \A k \in LogIndex :
                log[k][1] \in EntryOps => MajorVersion(log[k][2]) >= 14
         /\ \A v \in Versions :
                MajorVersion(v) < 14 =>
                    /\ fs.installer[v] = fs0.installer[v]
                    /\ fs.output[v] = fs0.output[v]
    /\ include_old_versions =>
         /\ \A k \in LogIndex : log[k][1] # "filtered"
         /\ pc = "done" =>
              \A v \in CatalogVersions :
                 /\ Logged("download_file", v)
                 /\ \/ Logged("already_have", v)
                    \/ Logged("cannot_extract", v)
                    \/ Logged("7za", v)
                    \/ Logged("dark", v)

C2_Witness ==
    /\ pc = "done"
    /\ ~include_old_versions
    /\ \E v \in CatalogVersions :
          MajorVersion(v) < 14 /\ Logged("filtered", v)
    /\ \E v \in CatalogVersions :
          MajorVersion(v) >= 14 /\ Logged("download_file", v)

\* C3: the major version alone selects the strategy of an entry whose
\* output directory is empty: 10 is skipped with the message, is never
\* extracted and its directory stays empty; another major below 11 goes
\* to the legacy path only; 11 and above goes to the bundle path only;
\* every entry the loop has passed got exactly the one its major selects.
C3_Dispatch ==
    /\ \A k \in LogIndex :
         LET op == log[k][1]
             m  == MajorVersion(log[k][2])
         IN  /\ op \in {"fetch_7zip", "7zr", "7za"} => (m < 11 /\ m # 10)
             /\ op = "dark" => m >= 11
             /\ op = "cannot_extract" => m = 10
             /\ op = "expand" => m # 10
    /\ \A v \in Versions : MajorVersion(v) = 10 => fs.output[v].files = 0
    /\ \A v \in Versions : ~(Logged("7za", v) /\ Logged("dark", v))
    /\ pc # "idle" =>
         \A k \in 1..Len(runtime_downloads) :
            LET v == runtime_downloads[k]
                m == MajorVersion(v)
            IN (k < idx /\ v \in Selected /\ ~Logged("already_have", v)) =>
                  /\ m = 10 => Logged("cannot_extract", v)
                  /\ (m < 11 /\ m # 10) =>
                        (Logged("7za", v) /\ ~Logged("cannot_extract", v))
                  /\ m >= 11 =>
                        (Logged("dark", v) /\ ~Logged("cannot_extract", v))

C3_Witness ==
    /\ pc = "done"
    /\ Logged("cannot_extract", V10)
    /\ Logged("7za", V9)
    /\ Logged("expand", V9)
    /\ fs.output[V10] = [isdir |-> TRUE, files |-> 0]

\* C4: a download_file call on a destination that exists makes no network
\* request, leaves the file as it is and returns normally.
C4_CacheHit ==
    [][\A v \in Versions :
          (/\ pc = "fetch_runtimes"
           /\ log' = Append(log, <<"download_file", v>>)
           /\ fs.installer[v] # "absent")
          => /\ fs'.installer[v] = fs.installer[v]
             /\ net' = net
             /\ pc' = "entry"]_vars

C4_Witness ==
    /\ pc = "entry"
    /\ fs0.installer[Ver] = "bad"
    /\ fs.installer[Ver] = "bad"
    /\ Logged("download_file", Ver)
    /\ net = 0

\* C5 as stated: after the "failed to extract" error of the legacy path
\* the output directory of that version does not exist if it did not exist
\* when the run started.
C5_NoOutputDirectoryAfterError ==
    (pc = "failed" /\ err = "ValueError") =>
        (~fs0.output[Ver].isdir => ~fs.output[Ver].isdir)

\* C5, amended: a legacy extraction that yields no CAB raises the "failed
\* to extract" error (one that returns has yielded a CAB), and after the
\* error the output directory of that version exists, created by fetch_all
\* before the dispatch, and is empty: expand.exe was not called for it.
C5_EmptyLegacyRaises ==
    /\ (pc = "extract_cab" /\ log # <<>> /\ log[Len(log)][1] = "7za") =>
           cabs_left > 0
    /\ (pc = "failed" /\ err = "ValueError") =>
           /\ log[Len(log)] = <<"7za", Ver>>
           /\ fs.output[Ver] = [isdir |-> TRUE, files |-> 0]
           /\ ~Logged("expand", Ver)

C5_Witness ==
    /\ pc = "failed"
    /\ err = "ValueError"
    /\ fs.installer[Ver] = "good"
    /\ ~fs0.output[Ver].isdir
    /\ fs.output[Ver].isdir

\* C6: a run started without the Downloads directory ends with the raised
\* error before any tool fetch, download, directory creation or
\* extraction, and the filesystem is as the run found it.
C6_MissingDownloadsGuard ==
    (pc # "idle" /\ ~fs0.downloads) =>
        /\ pc = "failed"
        /\ err = "SystemError"
        /\ log = <<>>
        /\ net = 0
        /\ fs = fs0

C6_Witness ==
    /\ pc = "failed"
    /\ err = "SystemError"
    /\ ~fs0.downloads
    /\ runs = 1

\* Events of catalog entries follow catalog order, and no kind of call
\* other than expand.exe is repeated for an entry.
OncePerRunInOrder ==
    \A j, k \in LogIndex :
        (j < k /\ log[j][1] \in EntryOps /\ log[k][1] \in EntryOps) =>
            /\ Position(log[j][2]) <= Position(log[k][2])
            /\ (log[j][1] = log[k][1] /\ log[k][1] # "expand") =>
                   Position(log[j][2]) < Position(log[k][2])
            /\ (log[j][2] = log[k][2]) => log[k][1] # "download_file"

\* Whatever else is done for an entry comes after its download.
ExtractionAfterDownload ==
    \A k \in LogIndex :
        log[k][1] \in (EntryOps \ {"download_file"}) =>
            \E j \in 1..(k - 1) : log[j] = <<"download_file", log[k][2]>>

\* C7: in one run the catalog entries are processed in catalog order, each
\* at most once (one download_file call, one makedirs, one report, one
\* fetch_7zip, one 7-Zip or dark.exe extraction), and an entry's
\* extraction comes after its own download.
C7_ProcessedOnce == OncePerRunInOrder /\ ExtractionAfterDownload

C7_Witness ==
    /\ pc = "done"
    /\ Len(runtime_downloads) = 2
    /\ Logged("expand", runtime_downloads[1])
    /\ Logged("expand", runtime_downloads[2])
    /\ Logged("7za", runtime_downloads[1]) \/ Logged("7za", runtime_downloads[2])

\* the loop of fetch_all is done with the entry
Outcome(v) == pc = "done" \/ Position(v) < idx

\* C8 as stated: a run that found the Downloads directory, whose downloads
\* succeed and whose tools start, ends having taken every selected entry
\* to an outcome, whatever the extractions found.
C8_RunsToCompletion ==
    (/\ pc \in {"done", "failed"}
     /\ fs0.downloads
     /\ err \notin {"RequestException", "BadZipFile", "OSError"}) =>
        /\ pc = "done"
        /\ \A v \in Selected : Outcome(v)

\* C9 as stated: both tool fetches happen exactly once in a run that ends
\* normally, and before anything is done for a catalog entry.
C9_ToolsFetchedOnceFirst ==
    /\ \A j, k \in LogIndex :
          (j < k /\ log[k][1] \in {"fetch_wix", "fetch_7zip"}) =>
              log[j][1] \notin {"download_file", "makedirs", "7za", "dark",
                                "expand"}
    /\ pc = "done" =>
          /\ Cardinality({k \in LogIndex : log[k][1] = "fetch_wix"}) = 1
          /\ Cardinality({k \in LogIndex : log[k][1] = "fetch_7zip"}) = 1

\* C9, amended: fetch_wix is the first thing a run does after the guard
\* and happens once; fetch_7zip is called inside the loop, once for each
\* entry sent to the legacy path (major below 11, not 10, directory
\* empty), after that entry's download and directly before its 7-Zip
\* extraction, and for no other entry.
C9_ToolFetchOrder ==
    /\ \A k \in LogIndex : (log[k][1] = "fetch_wix") <=> (k = 1)
    /\ (pc \notin {"idle", "fetch_wix"} /\ err # "SystemError") => log # <<>>
    /\ \A k \in LogIndex :
          log[k][1] = "fetch_7zip" =>
              LET v == log[k][2]
                  m == MajorVersion(v)
              IN  /\ m < 11 /\ m # 10
                  /\ k > 1
                  /\ log[k - 1] \in {<<"download_file", v>>, <<"makedirs", v>>}
                  /\ \E j \in 1..(k - 1) : log[j] = <<"download_file", v>>
                  /\ \A j \in LogIndex : log[j] = log[k] => j = k
    /\ \A k \in LogIndex :
          log[k][1] = "7za" =>
              \E j \in 1..(k - 1) :
                  /\ log[j] = <<"fetch_7zip", log[k][2]>>
                  /\ \A i \in (j + 1)..(k - 1) : log[i][1] = "7zr"

C9_Witness ==
    /\ pc = "done"
    /\ Len(runtime_downloads) = 2
    /\ Logged("fetch_7zip", runtime_downloads[1])
    /\ Logged("fetch_7zip", runtime_downloads[2])
    /\ Logged("expand", runtime_downloads[2])

\* C10 as stated: a non-empty output directory, outside the extraction
\* loop that is filling it, belongs to a version whose extraction fully
\* succeeded, and "Already have" is reported for such versions only.
C10_MarkerSound ==
    /\ \A v \in Versions :
          (fs.output[v].files > 0 /\ ~(pc = "extract_cab" /\ Ver = v)) =>
              v \in extracted
    /\ \A k \in LogIndex :
          log[k][1] = "already_have" => log[k][2] \in extracted

\* C11: a download_file call that raises never leaves a complete file at
\* a destination that was absent (what an interrupted stream leaves is
\* empty or partial), and an empty, partial or wrong installer, once on
\* disk, stays as it is in every later step of this and of later runs:
\* each later download_file call for it makes no network request and
\* returns it as if it had been fetched.
C11_CachePoisoning ==
    [][\A v \in Versions :
          LET called == /\ pc = "fetch_runtimes"
                        /\ log' = Append(log, <<"download_file", v>>)
          IN  /\ (called /\ fs.installer[v] = "absent" /\ pc' = "failed") =>
                    /\ fs'.installer[v] \in {"absent", "bad"}
                    /\ net' = net + 1
              /\ fs.installer[v] = "bad" =>
                    /\ fs'.installer[v] = "bad"
                    /\ called => (net' = net /\ pc' = "entry")]_vars

\* A later run found the damaged installer of an earlier one, made no
\* request for it and failed at its extraction.
C11_Witness ==
    /\ runs = 2
    /\ pc = "failed"
    /\ err \in {"ValueError", "FileNotFoundError"}
    /\ fs0.installer[Ver] = "bad"
    /\ fs.installer[Ver] = "bad"
    /\ Logged("download_file", Ver)
    /\ net = 0

====
